---- MODULE Spec2Model ----
(***************************************************************************)
(* A model of packages/client/components/interface/admin/ModDashboard.tsx: *)
(* the moderator dashboard component.  It covers the pure derivation of    *)
(* moderation actions from a report (deriveActions), the two mutations     *)
(* (strikeMutation, actionMutation), the click handlers (issueStrikeFor,   *)
(* runAction, the View JSON toggle) and the two queries they refetch.      *)
(*                                                                         *)
(* JavaScript values are records [k |-> <typeof tag>, ...]:                *)
(*   Undef            undefined                                            *)
(*   Null             null                                                 *)
(*   Str(s)           a string, s a TLA+ string                            *)
(*   Num(s)           a non-zero number whose String() form is s           *)
(*   Obj(id)          an object with an (optional) id property             *)
(*   Arr(items)       an array                                             *)
(*   Text(cs)         a string kept as a tuple of characters, where the    *)
(*                    code inspects it character by character              *)
(***************************************************************************)
EXTENDS Integers, Sequences, FiniteSets, TLC

VARIABLES
    pc,        \* which scenario the state belongs to and how far it is
    report,    \* the argument of deriveActions (derivation scenario)
    actions,   \* the value deriveActions returned
    reports,   \* reportsQuery.data ?? []
    expanded,  \* the expanded signal
    rq,        \* reportsQuery: "idle" or "fetching"
    sq,        \* strikesQuery: "idle" or "fetching"
    invs,      \* handler invocations, in click order
    mdata,     \* the argument of actionMutation's mutation function
    mres       \* what the mutation function did with it

vars == <<pc, report, actions, reports, expanded, rq, sq, invs, mdata, mres>>

(***************************************************************************)
(* Bounds                                                                  *)
(***************************************************************************)
\* longest snapshots array drawn for deriveActions
MaxSnap == 2
\* number of handler invocations (clicks) followed in the dashboard
MaxInv == 2

(***************************************************************************)
(* JavaScript values                                                       *)
(***************************************************************************)
Undef == [k |-> "undefined"]
Null == [k |-> "null"]
Str(s) == [k |-> "string", s |-> s]
Num(s) == [k |-> "number", s |-> s]
Obj(id) == [k |-> "object", id |-> id]
Arr(items) == [k |-> "array", items |-> items]
Text(cs) == [k |-> "string", cs |-> cs]
PlainObject == [k |-> "object"]

\* x == null || x == undefined, the test behind ?? and ?.
Nullish(v) == v.k \in {"undefined", "null"}

\* a ?? b
Coalesce(a, b) == IF Nullish(a) THEN b ELSE a

\* ToBoolean(v), the test behind if (v), !v, a && b
Truthy(v) ==
    CASE v.k \in {"undefined", "null"} -> FALSE
      [] v.k = "string" -> IF "cs" \in DOMAIN v THEN v.cs # <<>> ELSE v.s # ""
      [] OTHER -> TRUE

\* a === b
StrictEq(a, b) == a = b

\* String(v) inside a template literal
TemplateString(v) ==
    CASE v.k = "string" -> v.s
      [] v.k = "number" -> v.s
      [] v.k = "undefined" -> "undefined"
      [] v.k = "null" -> "null"
      [] OTHER -> "[object Object]"

\* o?.id
IdOf(o) == IF Nullish(o) THEN Undef ELSE IF "id" \in DOMAIN o THEN o.id ELSE Undef

\* report?.content?.<key>
ContentField(r, key) ==
    IF Nullish(r) THEN Undef
    ELSE IF Nullish(r.content) THEN Undef
    ELSE r.content[key]

\* report?.<key>
Field(r, key) == IF Nullish(r) THEN Undef ELSE r[key]

\* s.content?.<key> of a snapshot entry
EntryField(s, key) == IF Nullish(s.content) THEN Undef ELSE s.content[key]

(***************************************************************************)
(* Strings inspected character by character                                *)
(***************************************************************************)
UpperLetters ==
    <<"A","B","C","D","E","F","G","H","I","J","K","L","M",
      "N","O","P","Q","R","S","T","U","V","W","X","Y","Z">>
LowerLetters ==
    <<"a","b","c","d","e","f","g","h","i","j","k","l","m",
      "n","o","p","q","r","s","t","u","v","w","x","y","z">>
Digits == {"0","1","2","3","4","5","6","7","8","9"}

IndexIn(seq, c) == CHOOSE i \in 1..Len(seq) : seq[i] = c
IsUpper(c) == \E i \in 1..Len(UpperLetters) : UpperLetters[i] = c
IsLower(c) == \E i \in 1..Len(LowerLetters) : LowerLetters[i] = c
ToUpperChar(c) == IF IsLower(c) THEN UpperLetters[IndexIn(LowerLetters, c)] ELSE c
ToLowerChar(c) == IF IsUpper(c) THEN LowerLetters[IndexIn(UpperLetters, c)] ELSE c

\* String.prototype.toUpperCase, on a tuple of characters
toUpperCase(cs) == [i \in 1..Len(cs) |-> ToUpperChar(cs[i])]

\* the characters a tuple holds, as one TLA+ string
RECURSIVE Join(_)
Join(cs) == IF cs = <<>> THEN "" ELSE Head(cs) \o Join(Tail(cs))

\* the class [\w-]
IsWordOrDash(c) == IsUpper(c) \/ IsLower(c) \/ c \in Digits \/ c = "_" \/ c = "-"

\* the longest run of [\w-] characters of cs that starts at position j
RECURSIVE WordRun(_, _)
WordRun(cs, j) ==
    IF j > Len(cs) \/ ~IsWordOrDash(cs[j]) THEN <<>>
    ELSE <<cs[j]>> \o WordRun(cs, j + 1)

ChannelWord == <<"c","h","a","n","n","e","l">>

\* /channel[:\/]?([\w-]+)/i tried at position i: the capture group, or <<>>
\* when the pattern does not match there.  The optional separator is taken
\* when present; giving it back never helps, because the separator is not
\* in [\w-].
MatchAt(cs, i) ==
    IF i + Len(ChannelWord) - 1 > Len(cs) THEN <<>>
    ELSE IF \E n \in 1..Len(ChannelWord) : ToLowerChar(cs[i + n - 1]) # ChannelWord[n]
    THEN <<>>
    ELSE LET j == i + Len(ChannelWord)
         IN  IF j <= Len(cs) /\ cs[j] \in {":", "/"}
             THEN WordRun(cs, j + 1)
             ELSE WordRun(cs, j)

\* report.target_display.match(/channel[:\/]?([\w-]+)/i): m[1], or <<>> for
\* a null match.  The leftmost position where the pattern matches wins.
RegexChannel(cs) ==
    LET hits == {i \in 1..Len(cs) : MatchAt(cs, i) # <<>>}
    IN  IF hits = {} THEN <<>>
        ELSE MatchAt(cs, CHOOSE i \in hits : \A h \in hits : i <= h)

(***************************************************************************)
(* deriveActions                                                           *)
(***************************************************************************)
MethodDELETE == <<"D","E","L","E","T","E">>
MethodPUT == <<"P","U","T">>
MethodPOST == <<"P","O","S","T">>

EnabledAction(label, method, path) ==
    [label |-> label, enabled |-> TRUE, method |-> Text(method), path |-> Str(path)]
DisabledAction(label) ==
    [label |-> label, enabled |-> FALSE, method |-> Undef, path |-> Undef]

\* const msg = report?.content?.Message ?? report?.content?.message
MsgOf(r) == Coalesce(ContentField(r, "Message"), ContentField(r, "message"))

\* const snapshot = report?.snapshots ?? report?.snapshot
SnapshotOf(r) == Coalesce(Field(r, "snapshots"), Field(r, "snapshot"))

\* snapshot && Array.isArray(snapshot): the entries the two loops visit
SnapshotItems(r) ==
    LET snapshot == SnapshotOf(r)
    IN  IF Truthy(snapshot) /\ snapshot.k = "array" THEN snapshot.items ELSE <<>>

\* if (msg && typeof msg.id === "string") messageId = msg.id
MessageIdFromContent(r) ==
    LET msg == MsgOf(r)
    IN  IF Truthy(msg) /\ IdOf(msg).k = "string" THEN IdOf(msg) ELSE Undef

\* a variant of ScanChannelId that keeps the first channel id found
RECURSIVE ScanChannelIdFirst(_, _)
ScanChannelIdFirst(items, channelId) ==
    IF items = <<>> THEN channelId
    ELSE LET s == Head(items)
         IN  ScanChannelIdFirst(Tail(items),
                 IF Truthy(EntryField(s, "channel_id"))
                 THEN Coalesce(channelId, EntryField(s, "channel_id"))
                 ELSE channelId)

\* the loop's statement: if (s.content?.channel_id) channelId = s.content.channel_id
RECURSIVE ScanChannelId(_, _)
ScanChannelId(items, channelId) ==
    IF items = <<>> THEN channelId
    ELSE LET s == Head(items)
         IN  ScanChannelId(Tail(items),
                 IF Truthy(EntryField(s, "channel_id"))
                 THEN EntryField(s, "channel_id")
                 ELSE channelId)

\* the loop's statement:
\* if (s.content?.message_id) messageId = messageId ?? s.content.message_id
RECURSIVE ScanMessageId(_, _)
ScanMessageId(items, messageId) ==
    IF items = <<>> THEN messageId
    ELSE LET s == Head(items)
         IN  ScanMessageId(Tail(items),
                 IF Truthy(EntryField(s, "message_id"))
                 THEN Coalesce(messageId, EntryField(s, "message_id"))
                 ELSE messageId)

\* a variant of ScanServerId that keeps the first server id found
RECURSIVE ScanServerIdFirst(_, _)
ScanServerIdFirst(items, ctxServerId) ==
    IF items = <<>> THEN ctxServerId
    ELSE LET s == Head(items)
         IN  ScanServerIdFirst(Tail(items),
                 IF Truthy(EntryField(s, "server_id"))
                 THEN Coalesce(ctxServerId, EntryField(s, "server_id"))
                 ELSE ctxServerId)

\* for (const s of snapshot) if (s.content?.server_id) ctxServerId = s.content.server_id
RECURSIVE ScanServerId(_, _)
ScanServerId(items, ctxServerId) ==
    IF items = <<>> THEN ctxServerId
    ELSE LET s == Head(items)
         IN  ScanServerId(Tail(items),
                 IF Truthy(EntryField(s, "server_id"))
                 THEN EntryField(s, "server_id")
                 ELSE ctxServerId)

\* the target_display fallback for the channel id
ChannelIdFallback(r, channelId) ==
    LET td == Field(r, "target_display")
    IN  IF ~Truthy(channelId) /\ td.k = "string"
        THEN LET m == RegexChannel(td.cs)
             IN  IF m # <<>> THEN Str(Join(m)) ELSE channelId
        ELSE channelId

ChannelIdOf(r) == ChannelIdFallback(r, ScanChannelId(SnapshotItems(r), Undef))
MessageIdOf(r) == ScanMessageId(SnapshotItems(r), MessageIdFromContent(r))

\* a variant of RemoveMessageActions with the two ids swapped in the path
RemoveMessageActionsSwapped(messageId, channelId) ==
    IF Truthy(messageId) /\ Truthy(channelId)
    THEN << EnabledAction("Remove Message", MethodDELETE,
                "/channels/" \o TemplateString(messageId)
                    \o "/messages/" \o TemplateString(channelId)) >>
    ELSE << DisabledAction("Remove Message") >>

\* the Remove Message push
RemoveMessageActions(messageId, channelId) ==
    IF Truthy(messageId) /\ Truthy(channelId)
    THEN << EnabledAction("Remove Message", MethodDELETE,
                "/channels/" \o TemplateString(channelId)
                    \o "/messages/" \o TemplateString(messageId)) >>
    ELSE << DisabledAction("Remove Message") >>

\* const serverId = srv?.id ??
\*     (report?.target_id && report.type === "server" ? report.target_id : undefined)
ServerIdOf(r) ==
    LET srv == Coalesce(ContentField(r, "Server"), ContentField(r, "server"))
    IN  Coalesce(IdOf(srv),
            IF Truthy(Field(r, "target_id")) /\ StrictEq(r.type, Str("server"))
            THEN r.target_id
            ELSE Undef)

\* a variant of RemoveServerActions that leaves an unavailable action out
RemoveServerActionsOmitting(serverId) ==
    IF Truthy(serverId)
    THEN << EnabledAction("Remove Server", MethodDELETE,
                "/servers/" \o TemplateString(serverId)) >>
    ELSE << >>

\* the Remove Server push
RemoveServerActions(serverId) ==
    IF Truthy(serverId)
    THEN << EnabledAction("Remove Server", MethodDELETE,
                "/servers/" \o TemplateString(serverId)) >>
    ELSE << DisabledAction("Remove Server") >>

\* const userId = user?.id ?? (report?.type === "user" ? report.target_id : undefined)
UserIdOf(r) ==
    LET user == Coalesce(ContentField(r, "User"), ContentField(r, "user"))
    IN  Coalesce(IdOf(user),
            IF StrictEq(Field(r, "type"), Str("user")) THEN r.target_id ELSE Undef)

CtxServerIdOf(r) == ScanServerId(SnapshotItems(r), Undef)

\* the Kick from Server / Ban from Server pushes
KickBanActions(userId, ctxServerId) ==
    IF Truthy(userId) /\ Truthy(ctxServerId)
    THEN << EnabledAction("Kick from Server", MethodDELETE,
                "/servers/" \o TemplateString(ctxServerId)
                    \o "/members/" \o TemplateString(userId)),
            EnabledAction("Ban from Server", MethodPUT,
                "/servers/" \o TemplateString(ctxServerId)
                    \o "/bans/" \o TemplateString(userId)) >>
    ELSE << DisabledAction("Kick from Server"), DisabledAction("Ban from Server") >>

deriveActions(r) ==
    RemoveMessageActions(MessageIdOf(r), ChannelIdOf(r))
        \o RemoveServerActions(ServerIdOf(r))
        \o KickBanActions(UserIdOf(r), CtxServerIdOf(r))

(***************************************************************************)
(* The mutations                                                           *)
(***************************************************************************)
NoReq == [verb |-> "none"]
Request(verb, path, body) == [verb |-> verb, path |-> path, body |-> body]

\* strikeMutation's function: client().api.post("/safety/strikes", data)
strikeMutationFn(data) ==
    [threw |-> FALSE, error |-> "", req |-> Request("POST", Str("/safety/strikes"), data)]

\* a variant of actionMutationFn that compares the method as given
actionMutationFnCaseSensitive(data) ==
    LET method == data.method.cs
    IN  CASE method = MethodDELETE ->
               [threw |-> FALSE, error |-> "",
                req |-> Request("DELETE", data.path, Undef)]
          [] method = MethodPUT ->
               [threw |-> FALSE, error |-> "",
                req |-> Request("PUT", data.path, Coalesce(data.body, PlainObject))]
          [] method = MethodPOST ->
               [threw |-> FALSE, error |-> "",
                req |-> Request("POST", data.path, Coalesce(data.body, PlainObject))]
          [] OTHER ->
               [threw |-> TRUE, error |-> "Unsupported method", req |-> NoReq]

\* a variant of actionMutationFn whose switch has no PUT case
actionMutationFnNoPut(data) ==
    LET method == toUpperCase(data.method.cs)
    IN  CASE method = MethodDELETE ->
               [threw |-> FALSE, error |-> "",
                req |-> Request("DELETE", data.path, Undef)]
          [] method = MethodPOST ->
               [threw |-> FALSE, error |-> "",
                req |-> Request("POST", data.path, Coalesce(data.body, PlainObject))]
          [] OTHER ->
               [threw |-> TRUE, error |-> "Unsupported method", req |-> NoReq]

\* actionMutation's function: the switch on data.method.toUpperCase()
actionMutationFn(data) ==
    LET method == toUpperCase(data.method.cs)
    IN  CASE method = MethodDELETE ->
               [threw |-> FALSE, error |-> "",
                req |-> Request("DELETE", data.path, Undef)]
          [] method = MethodPUT ->
               [threw |-> FALSE, error |-> "",
                req |-> Request("PUT", data.path, Coalesce(data.body, PlainObject))]
          [] method = MethodPOST ->
               [threw |-> FALSE, error |-> "",
                req |-> Request("POST", data.path, Coalesce(data.body, PlainObject))]
          [] OTHER ->
               [threw |-> TRUE, error |-> "Unsupported method", req |-> NoReq]

(***************************************************************************)
(* The handlers.  A handler run is recorded as an outcome:                 *)
(*   st     "aborted" (returned before any request), "pending" (request on *)
(*          the wire, handler suspended at await), "ok", "failed"          *)
(*   req    the request dispatched, or NoReq                               *)
(*   sent   how many requests this run dispatched                          *)
(*   errs, succs   showError / showSuccess calls made by this run          *)
(*   refR, refS    reportsQuery.refetch / strikesQuery.refetch calls       *)
(*   msg    the last notification's text                                   *)
(***************************************************************************)
Outcome(st, req, errs, succs, refR, refS, msg) ==
    [st |-> st, req |-> req, sent |-> IF req.verb = "none" THEN 0 ELSE 1,
     errs |-> errs, succs |-> succs,
     refR |-> refR, refS |-> refS, msg |-> msg]

\* one click's handler run: which button, of which report, what it did, and
\* how many runs of the same button of the same report were pending then
Invocation(kind, rep, label, o, overlap) ==
    [kind |-> kind, rep |-> rep, label |-> label, o |-> o, overlap |-> overlap]

PendingOf(kind, rep, label) ==
    {n \in 1..Len(invs) :
        /\ invs[n].o.st = "pending"
        /\ invs[n].kind = kind
        /\ invs[n].rep = rep
        /\ invs[n].label = label}

\* selectedReason(): setSelectedReason is never called, the signal keeps ""
selectedReason == Str("")

\* const userId = report?.content?.User?.id ?? report?.target_id
StrikeUserId(r) == Coalesce(IdOf(ContentField(r, "User")), Field(r, "target_id"))

\* a variant of issueStrikeFor without the user id check
issueStrikeForUnchecked(r) ==
    LET userId == StrikeUserId(r)
        m == strikeMutationFn([user_id |-> userId, reason |-> selectedReason])
    IN  Outcome("pending", m.req, 0, 0, 0, 0, "")

\* a variant of issueStrikeFor that returns at once while a strike of the
\* same report is pending
issueStrikeForGuarded(r) ==
    LET userId == StrikeUserId(r)
    IN  IF PendingOf("strike", r, "Issue Strike") # {}
        THEN Outcome("aborted", NoReq, 0, 0, 0, 0, "")
        ELSE IF ~Truthy(userId)
        THEN Outcome("aborted", NoReq, 1, 0, 0, 0, "No user id found for this report")
        ELSE LET m == strikeMutationFn([user_id |-> userId, reason |-> selectedReason])
             IN  Outcome("pending", m.req, 0, 0, 0, 0, "")

\* issueStrikeFor up to its await
issueStrikeFor(r) ==
    LET userId == StrikeUserId(r)
    IN  IF ~Truthy(userId)
        THEN Outcome("aborted", NoReq, 1, 0, 0, 0, "No user id found for this report")
        ELSE LET m == strikeMutationFn([user_id |-> userId, reason |-> selectedReason])
             IN  Outcome("pending", m.req, 0, 0, 0, 0, "")

\* a variant of strikeSettled that refetches the queries after a failure too
strikeSettledRefetchAlways(o, ok) ==
    IF ok
    THEN [o EXCEPT !.st = "ok", !.succs = @ + 1, !.refR = @ + 1, !.refS = @ + 1,
                   !.msg = "Strike issued"]
    ELSE [o EXCEPT !.st = "failed", !.errs = @ + 1, !.refR = @ + 1, !.refS = @ + 1,
                   !.msg = "request failed"]

\* issueStrikeFor after the await: the lines after mutateAsync when it
\* resolved, the catch block when it rejected
strikeSettled(o, ok) ==
    IF ok
    THEN [o EXCEPT !.st = "ok", !.succs = @ + 1, !.refR = @ + 1, !.refS = @ + 1,
                   !.msg = "Strike issued"]
    ELSE [o EXCEPT !.st = "failed", !.errs = @ + 1, !.msg = "request failed"]

\* runAction up to its await.  A throw of the mutation function rejects
\* mutateAsync, and the catch block shows the error.
runAction(method, path) ==
    IF ~Truthy(method) \/ ~Truthy(path)
    THEN Outcome("aborted", NoReq, 1, 0, 0, 0, "Action not available")
    ELSE LET m == actionMutationFn([method |-> method, path |-> path, body |-> Undef])
         IN  IF m.threw
             THEN Outcome("failed", NoReq, 1, 0, 0, 0, m.error)
             ELSE Outcome("pending", m.req, 0, 0, 0, 0, "")

\* runAction after the await
actionSettled(o, ok) ==
    IF ok
    THEN [o EXCEPT !.st = "ok", !.succs = @ + 1, !.refR = @ + 1, !.refS = @ + 1,
                   !.msg = "Action completed"]
    ELSE [o EXCEPT !.st = "failed", !.errs = @ + 1, !.msg = "request failed"]

\* onClick of the View JSON / Hide JSON button
toggleExpanded(r) == IF StrictEq(expanded, r.id) THEN Null ELSE r.id

\* a variant of IsShown that shows the JSON of every report once any is expanded
IsShownAny(r) == expanded # Null

\* <Show when={expanded() === report.id}>
IsShown(r) == StrictEq(expanded, r.id)

(***************************************************************************)
(* Reports                                                                 *)
(***************************************************************************)
Report(id, type, target_id, target_display, content, snapshots, snapshot) ==
    [k |-> "object", id |-> id, type |-> type, target_id |-> target_id,
     target_display |-> target_display, content |-> content,
     snapshots |-> snapshots, snapshot |-> snapshot]

Content(Message, message, User, user, Server, server) ==
    [k |-> "object", Message |-> Message, message |-> message, User |-> User, user |-> user,
     Server |-> Server, server |-> server]

Entry(channel_id, message_id, server_id) ==
    [k |-> "object",
     content |-> [k |-> "object", channel_id |-> channel_id,
                  message_id |-> message_id, server_id |-> server_id]]

\* snapshot entries: without content, and with ids set, unset or empty
Entries ==
    { [k |-> "object", content |-> Undef],
      Entry(Str("c1"), Str("m3"), Undef),
      Entry(Str("c2"), Undef, Str("s3")),
      Entry(Str(""), Str("m4"), Str("s4")) }

RECURSIVE SeqsUpTo(_, _)
SeqsUpTo(S, n) ==
    IF n = 0 THEN {<<>>}
    ELSE LET shorter == SeqsUpTo(S, n - 1)
         IN  shorter \cup {Append(q, e) : q \in {x \in shorter : Len(x) = n - 1}, e \in S}

\* the (snapshots, snapshot) pairs drawn
SnapshotPairs ==
    ({Undef, PlainObject} \cup {Arr(q) : q \in SeqsUpTo(Entries, MaxSnap)}) \X {Undef}
        \cup {Undef, Null, PlainObject} \X {Arr(<<Entry(Str("c1"), Str("m3"), Str("s3"))>>)}

MessageObjects == {Undef, Obj(Undef), Obj(Str("")), Obj(Str("m1")), Obj(Num("7"))}
UserObjects == {Undef, Obj(Undef), Obj(Str("u1"))}

\* content: absent, or an object carrying the keys of one report variant, or
\* of all of them
Contents ==
    {Undef}
        \cup {Content(M, m, Undef, Undef, Undef, Undef) :
                 M \in MessageObjects, m \in {Undef, Obj(Str("m2"))}}
        \cup {Content(Undef, Undef, U, u, Undef, Undef) :
                 U \in UserObjects, u \in {Undef, Obj(Str("u2"))}}
        \cup {Content(Undef, Undef, Undef, Undef, S, s) :
                 S \in {Undef, Obj(Str("s1"))}, s \in {Undef, Obj(Str("s2"))}}
        \cup {Content(Obj(Str("m1")), Undef, Obj(Str("u1")), Undef, Obj(Str("s1")), Undef)}

TargetDisplays ==
    { Undef,
      Text(<<"i","n"," ","C","h","a","n","n","e","l",":","a","-","1"," ","x">>),
      Text(<<"c","h","a","n","n","e","l",":"," ","c","h","a","n","n","e","l","s">>) }

DeriveInputs ==
    {Null} \cup
    {Report(Str("r1"), ty, tid, td, c, sp[1], sp[2]) :
        ty \in {Undef, Str("user"), Str("server")},
        tid \in {Undef, Str("t1")},
        td \in TargetDisplays,
        c \in Contents,
        sp \in SnapshotPairs}

\* the reports the dashboard is given
ReportA ==
    Report(Str("r1"), Str("user"), Undef, Undef,
           Content(Undef, Undef, Obj(Str("u1")), Undef, Undef, Undef),
           Arr(<<Entry(Str("c2"), Undef, Str("s3"))>>), Undef)
ReportB ==
    Report(Str("r2"), Undef, Undef, Undef,
           Content(Obj(Str("m1")), Undef, Undef, Undef, Undef, Undef),
           Arr(<<Entry(Str("c1"), Undef, Undef)>>), Undef)
ReportC == Report(Undef, Str("user"), Str("t1"), Undef, Undef, Undef, Undef)
ReportD == Report(Str("r1"), Undef, Undef, Undef, Undef, Undef, Undef)
ReportE == Report(Undef, Undef, Undef, Undef, Undef, Undef, Undef)

\* what GET /safety/reports may answer: distinct ids; a shared id and
\* missing ids
ReportLists == { <<ReportA, ReportB>>, <<ReportA, ReportD, ReportC, ReportE>> }

(***************************************************************************)
(* The dashboard                                                           *)
(***************************************************************************)
\* a refetch() call of a query starts a fetch
AfterRefetch(q, before, after) == IF after > before THEN "fetching" ELSE q

Idle ==
    /\ report = Undef
    /\ actions = <<>>
    /\ mdata = Undef
    /\ mres = Undef

\* the component just mounted: both queries fetching, nothing expanded
Init ==
    /\ pc = "dashboard"
    /\ reports = <<>>
    /\ expanded = Null
    /\ rq = "fetching"
    /\ sq = "fetching"
    /\ invs = <<>>
    /\ Idle

\* GET /safety/reports answered: data = res ?? []
ReportsFetched ==
    /\ pc = "dashboard"
    /\ rq = "fetching"
    /\ \E list \in ReportLists : reports' = list
    /\ rq' = "idle"
    /\ UNCHANGED <<pc, report, actions, expanded, sq, invs, mdata, mres>>

\* GET /safety/reports failed: the catch returns []
ReportsFetchFailed ==
    /\ pc = "dashboard"
    /\ rq = "fetching"
    /\ reports' = <<>>
    /\ rq' = "idle"
    /\ UNCHANGED <<pc, report, actions, expanded, sq, invs, mdata, mres>>

\* GET /safety/strikes answered or failed; the strikes are only rendered
StrikesFetched ==
    /\ pc = "dashboard"
    /\ sq = "fetching"
    /\ sq' = "idle"
    /\ UNCHANGED <<pc, report, actions, reports, expanded, rq, invs, mdata, mres>>

\* a click on Issue Strike of the i-th report
ClickIssueStrike(i) ==
    /\ pc = "dashboard"
    /\ Len(invs) < MaxInv
    /\ LET r == reports[i]
       IN  invs' = Append(invs,
               Invocation("strike", r, "Issue Strike", issueStrikeFor(r),
                          Cardinality(PendingOf("strike", r, "Issue Strike"))))
    /\ UNCHANGED <<pc, report, actions, reports, expanded, rq, sq, mdata, mres>>

\* a click on View JSON / Hide JSON of the i-th report
ClickToggleJSON(i) ==
    /\ pc = "dashboard"
    /\ expanded' = toggleExpanded(reports[i])
    /\ UNCHANGED <<pc, report, actions, reports, rq, sq, invs, mdata, mres>>

\* a click on the a-th action button of the i-th report; a disabled button
\* takes no click
ClickAction(i, a) ==
    /\ pc = "dashboard"
    /\ Len(invs) < MaxInv
    /\ LET r == reports[i]
           act == deriveActions(r)[a]
       IN  /\ act.enabled
           /\ invs' = Append(invs,
                  Invocation("action", r, act.label, runAction(act.method, act.path),
                             Cardinality(PendingOf("action", r, act.label))))
    /\ UNCHANGED <<pc, report, actions, reports, expanded, rq, sq, mdata, mres>>

\* the backend answers the n-th run's request, and the run continues
Settle(n, ok) ==
    /\ pc = "dashboard"
    /\ invs[n].o.st = "pending"
    /\ LET before == invs[n].o
           after == IF invs[n].kind = "strike"
                    THEN strikeSettled(before, ok)
                    ELSE actionSettled(before, ok)
       IN  /\ invs' = [invs EXCEPT ![n].o = after]
           /\ rq' = AfterRefetch(rq, before.refR, after.refR)
           /\ sq' = AfterRefetch(sq, before.refS, after.refS)
    /\ UNCHANGED <<pc, report, actions, reports, expanded, mdata, mres>>

RequestSucceeds(n) == Settle(n, TRUE)
RequestFails(n) == Settle(n, FALSE)

Next ==
    \/ ReportsFetched
    \/ ReportsFetchFailed
    \/ StrikesFetched
    \/ \E i \in 1..Len(reports) : ClickIssueStrike(i)
    \/ \E i \in 1..Len(reports) : ClickToggleJSON(i)
    \/ \E i \in 1..Len(reports) : \E a \in 1..Len(deriveActions(reports[i])) : ClickAction(i, a)
    \/ \E n \in 1..Len(invs) : RequestSucceeds(n)
    \/ \E n \in 1..Len(invs) : RequestFails(n)

Spec == Init /\ [][Next]_vars

(***************************************************************************)
(* deriveActions on its own: a report is drawn, the function is applied,   *)
(* and runAction is called with one of the returned actions' method and    *)
(* path                                                                    *)
(***************************************************************************)
InitDerive ==
    /\ pc = "derive"
    /\ report \in DeriveInputs
    /\ actions = <<>>
    /\ reports = <<>>
    /\ expanded = Null
    /\ rq = "idle"
    /\ sq = "idle"
    /\ invs = <<>>
    /\ mdata = Undef
    /\ mres = Undef

Derive ==
    /\ pc = "derive"
    /\ actions' = deriveActions(report)
    /\ pc' = "derived"
    /\ UNCHANGED <<report, reports, expanded, rq, sq, invs, mdata, mres>>

RunDerived(a) ==
    /\ pc = "derived"
    /\ invs' = <<Invocation("action", report, actions[a].label,
                            runAction(actions[a].method, actions[a].path), 0)>>
    /\ pc' = "ran"
    /\ UNCHANGED <<report, actions, reports, expanded, rq, sq, mdata, mres>>

NextDerive ==
    \/ Derive
    \/ \E a \in 1..Len(actions) : RunDerived(a)

SpecDerive == InitDerive /\ [][NextDerive]_vars

(***************************************************************************)
(* actionMutation on its own: its function applied to drawn arguments      *)
(***************************************************************************)
Methods ==
    { MethodDELETE, MethodPUT, MethodPOST,
      <<"d","e","l","e","t","e">>, <<"D","e","l","e","t","e">>,
      <<"p","u","t">>, <<"p","U","t">>, <<"p","o","s","t">>, <<"P","o","s","T">>,
      <<"p","a","t","c","h">>, <<"P","A","T","C","H">>, <<"G","E","T">>,
      <<"D","E","L","E","T","E","D">>, <<"P","U">>, <<>> }

MutationInputs ==
    [method : {Text(m) : m \in Methods},
     path : {Str("/servers/s1"), Str("/servers/s1/bans/u1"), Str("/channels/c1/messages/m1")},
     body : {Undef, [k |-> "object", reason |-> "spam"]}]

InitMutation ==
    /\ pc = "mutate"
    /\ mdata \in MutationInputs
    /\ mres = Undef
    /\ report = Undef
    /\ actions = <<>>
    /\ reports = <<>>
    /\ expanded = Null
    /\ rq = "idle"
    /\ sq = "idle"
    /\ invs = <<>>

Mutate ==
    /\ pc = "mutate"
    /\ mres' = actionMutationFn(mdata)
    /\ pc' = "mutated"
    /\ UNCHANGED <<report, actions, reports, expanded, rq, sq, invs, mdata>>

NextMutation == Mutate

SpecMutation == InitMutation /\ [][NextMutation]_vars

(***************************************************************************)
(* Properties                                                              *)
(***************************************************************************)
\* the entries of the array the report offers as snapshots (snapshots, or
\* snapshot when snapshots is missing); none when that is not an array
SnapshotEntries(r) ==
    IF r.k # "object" THEN <<>>
    ELSE IF r.snapshots.k = "array" THEN r.snapshots.items
    ELSE IF r.snapshots.k \in {"undefined", "null"} /\ r.snapshot.k = "array"
    THEN r.snapshot.items
    ELSE <<>>

\* the value a snapshot entry carries under key, Undef when it has no content
Carried(e, key) == IF e.content.k = "object" THEN e.content[key] ELSE Undef

\* a value counts as set when it is neither missing nor empty
IsSet(v) == v.k \notin {"undefined", "null"} /\ v # Str("")

\* the positions of the entries that have key set
Having(r, key) ==
    {i \in 1..Len(SnapshotEntries(r)) : IsSet(Carried(SnapshotEntries(r)[i], key))}

FirstOf(S) == CHOOSE i \in S : \A j \in S : i <= j
LastOf(S) == CHOOSE i \in S : \A j \in S : i >= j

\* every message id the report carries anywhere
MessageIdCandidates(r) ==
    {v \in {IdOf(ContentField(r, "Message")), IdOf(ContentField(r, "message"))}
           \cup {Carried(SnapshotEntries(r)[i], "message_id") :
                    i \in 1..Len(SnapshotEntries(r))} : IsSet(v)}

MessagePath(channelId, messageId) ==
    Str("/channels/" \o TemplateString(channelId) \o "/messages/" \o TemplateString(messageId))

Derived == pc \in {"derived", "ran"}

HasArraySnapshots == report.k = "object" /\ report.snapshots.k = "array"

\* C1 as stated: for a report whose snapshots is an array, the channel id in
\* the Remove Message path is the content.channel_id of the FIRST snapshot
\* entry that has one set; later entries never override it.
C1_FirstChannelWins ==
    (Derived /\ HasArraySnapshots /\ Having(report, "channel_id") # {} /\ actions[1].enabled)
        => \E mid \in MessageIdCandidates(report) :
              actions[1].path =
                  MessagePath(Carried(SnapshotEntries(report)[FirstOf(Having(report, "channel_id"))],
                                      "channel_id"), mid)

\* C1 amended: for a report whose snapshots is an array, the channel id in
\* the Remove Message path is the content.channel_id of the LAST snapshot
\* entry that has one set; each later entry overrides the earlier ones.
C1_LastChannelWins ==
    (Derived /\ HasArraySnapshots /\ Having(report, "channel_id") # {} /\ actions[1].enabled)
        => \E mid \in MessageIdCandidates(report) :
              actions[1].path =
                  MessagePath(Carried(SnapshotEntries(report)[LastOf(Having(report, "channel_id"))],
                                      "channel_id"), mid)

\* two snapshot entries carry different channel ids and Remove Message is enabled
C1_Witness ==
    /\ Derived /\ HasArraySnapshots
    /\ actions[1].enabled
    /\ \E i, j \in Having(report, "channel_id") :
          /\ i < j
          /\ Carried(SnapshotEntries(report)[i], "channel_id")
                 # Carried(SnapshotEntries(report)[j], "channel_id")

Labels == [i \in 1..Len(actions) |-> actions[i].label]
FourLabels == <<"Remove Message", "Remove Server", "Kick from Server", "Ban from Server">>

\* C2 as stated: deriveActions returns exactly 5 actions, with Remove
\* Message, Remove Server, Kick from Server, Ban from Server in that order,
\* none omitted.
C2_FiveActions ==
    Derived =>
        /\ Len(actions) = 5
        /\ \E f \in [1..4 -> 1..Len(actions)] :
              /\ \A i \in 1..3 : f[i] < f[i + 1]
              /\ \A i \in 1..4 : actions[f[i]].label = FourLabels[i]

\* C2 amended: for every report deriveActions returns exactly 4 actions, in
\* the order Remove Message, Remove Server, Kick from Server, Ban from
\* Server; an action whose ids do not resolve is returned with enabled =
\* false, never left out.
C2_FourActions ==
    Derived =>
        /\ Labels = FourLabels
        /\ \A i \in 1..Len(actions) : actions[i].enabled \in BOOLEAN

\* a report none of whose ids resolve still yields the four actions
C2_Witness ==
    /\ Derived
    /\ Len(actions) = 4
    /\ \A i \in 1..Len(actions) : ~actions[i].enabled

\* an id is present when it is a non-empty string
IsPresentId(v) == v.k = "string" /\ v # Str("")

\* C6: when content.Message.id and some snapshot entry's content.channel_id
\* are both present, the first action is Remove Message, enabled, with
\* method DELETE and path /channels/{channelId}/messages/{messageId}, where
\* messageId is content.Message.id and channelId a snapshot's channel id.
C6_RemoveMessageEnabled ==
    (Derived /\ IsPresentId(IdOf(ContentField(report, "Message")))
             /\ Having(report, "channel_id") # {})
        => /\ actions[1].label = "Remove Message"
           /\ actions[1].enabled
           /\ actions[1].method = Text(MethodDELETE)
           /\ \E i \in Having(report, "channel_id") :
                 actions[1].path =
                     MessagePath(Carried(SnapshotEntries(report)[i], "channel_id"),
                                 IdOf(ContentField(report, "Message")))

\* content.Message.id is present, a snapshot carries a channel id and another
\* a different message id
C6_Witness ==
    /\ Derived
    /\ IsPresentId(IdOf(ContentField(report, "Message")))
    /\ Having(report, "channel_id") # {}
    /\ Having(report, "message_id") # {}
    /\ actions[1].enabled

\* the user id of the claim: the id of content.User, or of content.user when
\* there is no content.User; target_id when that gives none and type is "user"
ClaimedUserId(r) ==
    LET user == IF ~Nullish(ContentField(r, "User")) THEN ContentField(r, "User")
                ELSE ContentField(r, "user")
        id == IF user.k = "object" THEN user.id ELSE Undef
    IN  IF ~Nullish(id) THEN id
        ELSE IF r.k = "object" /\ r.type = Str("user") THEN r.target_id
        ELSE Undef

\* C7: Kick from Server and Ban from Server are enabled exactly when a user
\* id and a context server id both resolve, the context server id being the
\* content.server_id of the LAST snapshot entry that has one; the requests
\* are DELETE /servers/{ctx}/members/{user} and PUT /servers/{ctx}/bans/{user};
\* the two are enabled together or not at all.
C7_KickBan ==
    Derived =>
        LET uid == ClaimedUserId(report)
            has == Having(report, "server_id")
            both == IsSet(uid) /\ has # {}
        IN  /\ actions[3].label = "Kick from Server"
            /\ actions[4].label = "Ban from Server"
            /\ actions[3].enabled = both
            /\ actions[4].enabled = both
            /\ both =>
                 LET ctx == Carried(SnapshotEntries(report)[LastOf(has)], "server_id")
                 IN  /\ actions[3].method = Text(MethodDELETE)
                     /\ actions[3].path =
                            Str("/servers/" \o TemplateString(ctx)
                                    \o "/members/" \o TemplateString(uid))
                     /\ actions[4].method = Text(MethodPUT)
                     /\ actions[4].path =
                            Str("/servers/" \o TemplateString(ctx)
                                    \o "/bans/" \o TemplateString(uid))

\* two snapshot entries carry different server ids, the user id resolves and
\* both actions are enabled
C7_Witness ==
    /\ Derived
    /\ actions[3].enabled /\ actions[4].enabled
    /\ \E i, j \in Having(report, "server_id") :
          /\ i < j
          /\ Carried(SnapshotEntries(report)[i], "server_id")
                 # Carried(SnapshotEntries(report)[j], "server_id")

\* C10: an action is enabled exactly when its method and its path are both
\* defined, and an enabled action's method is DELETE or PUT; so runAction
\* with an enabled action's method and path dispatches exactly one request
\* and shows no error, and with a disabled action's dispatches none.
C10_EnabledRuns ==
    /\ Derived =>
          \A a \in 1..Len(actions) :
              /\ actions[a].enabled = (actions[a].method # Undef /\ actions[a].path # Undef)
              /\ actions[a].enabled <=> (actions[a].method # Undef \/ actions[a].path # Undef)
              /\ actions[a].enabled =>
                    actions[a].method \in {Text(MethodDELETE), Text(MethodPUT)}
    /\ pc = "ran" =>
          \A a \in 1..Len(actions) :
              actions[a].label = invs[1].label =>
                  IF actions[a].enabled
                  THEN /\ invs[1].o.st = "pending"
                       /\ invs[1].o.sent = 1
                       /\ invs[1].o.errs = 0
                       /\ invs[1].o.req.path = actions[a].path
                       /\ invs[1].o.req.verb = Join(actions[a].method.cs)
                  ELSE /\ invs[1].o.st = "aborted"
                       /\ invs[1].o.sent = 0
                       /\ invs[1].o.req = NoReq
                       /\ invs[1].o.msg = "Action not available"

\* runAction was called with the enabled Ban from Server action
C10_Witness ==
    /\ pc = "ran"
    /\ invs[1].label = "Ban from Server"
    /\ actions[4].enabled
    /\ invs[1].o.st = "pending"

\* a and b are the same word but for the case of their letters
SameIgnoringCase(a, b) ==
    /\ Len(a) = Len(b)
    /\ \A i \in 1..Len(a) : ToLowerChar(a[i]) = ToLowerChar(b[i])

EmptyObjectIfMissing(body) == IF body = Undef THEN PlainObject ELSE body

\* C8: the action mutation dispatches exactly one request, with the matching
\* verb, when the method is DELETE, PUT or POST in any letter case (PUT and
\* POST with the body defaulting to an empty object); for any other method
\* it rejects with "Unsupported method" and performs no request.
C8_Dispatch ==
    pc = "mutated" =>
        LET m == mdata.method.cs
        IN  CASE SameIgnoringCase(m, MethodDELETE) ->
                   /\ ~mres.threw
                   /\ mres.req = [verb |-> "DELETE", path |-> mdata.path, body |-> Undef]
              [] SameIgnoringCase(m, MethodPUT) ->
                   /\ ~mres.threw
                   /\ mres.req = [verb |-> "PUT", path |-> mdata.path,
                                  body |-> EmptyObjectIfMissing(mdata.body)]
              [] SameIgnoringCase(m, MethodPOST) ->
                   /\ ~mres.threw
                   /\ mres.req = [verb |-> "POST", path |-> mdata.path,
                                  body |-> EmptyObjectIfMissing(mdata.body)]
              [] OTHER ->
                   /\ mres.threw
                   /\ mres.error = "Unsupported method"
                   /\ mres.req = NoReq

\* the mutation was called with method "patch" and rejected
C8_Witness ==
    /\ pc = "mutated"
    /\ mdata.method = Text(<<"p","a","t","c","h">>)
    /\ mres.threw

Shown == {i \in 1..Len(reports) : IsShown(reports[i])}

DistinctIds ==
    /\ \A i \in 1..Len(reports) : reports[i].id.k = "string"
    /\ \A i, j \in 1..Len(reports) : i # j => reports[i].id # reports[j].id

\* C3 as stated: after any clicks on View JSON / Hide JSON, on any rendered
\* list (also one whose reports lack an id or share one), at most one report
\* has its raw JSON shown.
C3_AtMostOneShown == Cardinality(Shown) <= 1

\* C3 amended: one id at most is expanded, and the reports shown are those
\* whose id is that one: at most one report is shown when the reports of the
\* list have ids, all different; and a click on View JSON of report B while
\* a report A with another id is shown leaves B shown and A collapsed.
C3_OneExpandedId ==
    /\ [](/\ DistinctIds => Cardinality(Shown) <= 1
          /\ \A i, j \in Shown : reports[i].id = reports[j].id)
    /\ [][\A a, b \in 1..Len(reports) :
             (ClickToggleJSON(b) /\ a \in Shown /\ reports[a].id # reports[b].id)
                 => (b \in Shown' /\ a \notin Shown')]_vars

\* in the list with different ids the second report is shown, the first not
C3_Witness ==
    /\ reports = <<ReportA, ReportB>>
    /\ Shown = {2}

\* the report gives issueStrikeFor no user id
NoUserId(r) ==
    /\ ~IsSet(IdOf(ContentField(r, "User")))
    /\ ~IsSet(r.target_id)

Strikes == {n \in 1..Len(invs) : invs[n].kind = "strike"}

\* C4: issueStrikeFor on a report with no content.User.id and no target_id
\* sends no POST /safety/strikes, shows exactly one error notification and
\* no success notification, and refetches neither query.
C4_NoUserIdAborts ==
    \A n \in Strikes :
        NoUserId(invs[n].rep) =>
            /\ invs[n].o.req = NoReq
            /\ invs[n].o.sent = 0
            /\ invs[n].o.errs = 1
            /\ invs[n].o.succs = 0
            /\ invs[n].o.refR = 0
            /\ invs[n].o.refS = 0

\* Issue Strike was clicked on a report without a user id
C4_Witness ==
    \E n \in Strikes : NoUserId(invs[n].rep) /\ invs[n].o.st = "aborted"

\* C5: an issueStrikeFor run that sent a strike request refetches each query
\* exactly once and shows exactly one success notification if the request
\* succeeds; it shows exactly one error notification, refetches nothing and
\* sends no second request if the request fails.
C5_StrikeCompletion ==
    \A n \in Strikes :
        invs[n].o.req # NoReq =>
            /\ invs[n].o.req.verb = "POST"
            /\ invs[n].o.req.path = Str("/safety/strikes")
            /\ invs[n].o.sent = 1
            /\ invs[n].o.st \in {"pending", "ok", "failed"}
            /\ invs[n].o.st = "pending" =>
                   invs[n].o.succs + invs[n].o.errs + invs[n].o.refR + invs[n].o.refS = 0
            /\ invs[n].o.st = "ok" =>
                   /\ invs[n].o.succs = 1 /\ invs[n].o.errs = 0
                   /\ invs[n].o.refR = 1 /\ invs[n].o.refS = 1
            /\ invs[n].o.st = "failed" =>
                   /\ invs[n].o.succs = 0 /\ invs[n].o.errs = 1
                   /\ invs[n].o.refR = 0 /\ invs[n].o.refS = 0

\* one strike request succeeded and another failed
C5_Witness ==
    \E n, m \in Strikes : invs[n].o.st = "ok" /\ invs[m].o.st = "failed"

\* C9: a click on Issue Strike, or on an enabled action button, made while
\* an earlier click's request for the same button of the same report is
\* still pending, sends a second, identical request; each of the two runs
\* shows its own notification when its request completes and, on success,
\* makes its own refetch of both queries.
C9_NoInFlightGuard ==
    \A n \in 1..Len(invs) :
        invs[n].overlap > 0 =>
            /\ invs[n].o.sent = 1
            /\ \E m \in 1..(n - 1) :
                  /\ invs[m].kind = invs[n].kind
                  /\ invs[m].rep = invs[n].rep
                  /\ invs[m].o.req = invs[n].o.req
                  /\ \A x \in {m, n} :
                        /\ invs[x].o.st = "ok" =>
                              /\ invs[x].o.succs = 1 /\ invs[x].o.errs = 0
                              /\ invs[x].o.refR = 1 /\ invs[x].o.refS = 1
                        /\ invs[x].o.st = "failed" =>
                              /\ invs[x].o.succs = 0 /\ invs[x].o.errs = 1
                              /\ invs[x].o.refR = 0 /\ invs[x].o.refS = 0

\* two identical strike requests of the same report are pending at once
C9_Witness ==
    \E m, n \in Strikes :
        /\ m < n
        /\ invs[m].rep = invs[n].rep
        /\ invs[m].o.req = invs[n].o.req
        /\ invs[m].o.st = "pending"
        /\ invs[n].o.st = "pending"

====
